---- MODULE Spec2Model ----
(***************************************************************************)
(* SuperFSDir (src/libs/dir.js): the directory engine of superfs.          *)
(*                                                                         *)
(* The filesystem is a map from absolute paths (sequences of names) to     *)
(* nodes.  read() is the recursive traversal of dir.js, computed the way   *)
(* the generator computes it: listing, ignore pass, per-name stat, the     *)
(* directory branch with its nested read, the file branch.  copy() is a    *)
(* process that takes one filesystem call per step.                        *)
(***************************************************************************)
EXTENDS Integers, Sequences, FiniteSets, TLC

VARIABLES
    fs,        \* the filesystem: absolute path -> [isDir, data]
    listing,   \* the order in which the OS lists names (fs.readdir order)
    pc,        \* position of the caller: "setup", then the step of the running call
    opts,      \* options of the running / last call
    result,    \* the array the last read()/copy() resolved with
    idx,       \* copy: index of the entry the for-loop is at
    data,      \* copy: content read from the source file of the current entry
    run,       \* copy: number of copy() calls completed
    written,   \* copy: destination paths written by the current copy() call
    firstFs,   \* copy: the filesystem as the first copy() call left it
    engine,    \* delete: the Array.prototype.sort implementation of the runtime
    removed,   \* delete: the paths removed by the running delete(), in order
    error      \* delete: the failure delete() rejected with

delVars == <<engine, removed, error>>

VARIABLES
    now,       \* watch: the clock
    watchers   \* watch: directory path -> the state of its fs.watch listener

watchVars == <<now, watchers>>

VARIABLES
    target,    \* mkdir helper: the directory the caller asked for
    frames,    \* mkdir helper: the directories of the nested calls, innermost last
    mkErr      \* mkdir helper: what the caller's callback was called with

mkVars == <<target, frames, mkErr>>

vars == <<fs, listing, pc, opts, result, idx, data, run, written, firstFs, delVars, watchVars, mkVars>>

(***************************************************************************)
(* Bounds of the model.                                                    *)
(***************************************************************************)
MaxDepth == 2      \* read: levels of sub-directories below the root
CopyDepth == 1     \* copy: levels of sub-directories below source and destination
MaxRuns == 2       \* copy() calls made in a row
DeleteDepth == 2   \* delete: levels of sub-directories below the root
WatchDepth == 1    \* watch: levels of sub-directories below the root
MaxTime == 1000    \* watch: the clock stops here
TickStep == 250    \* watch: the time that passes in one step of the clock
MkDepth == 2       \* mkdir helper: directories below the first name of the target
MaxCalls == 3      \* watch: consumer callbacks delivered per directory

FileNames == {"a.txt", "b.txt"}
DestFileNames == {"a.txt"}     \* the files a destination may hold before copy()
WatchFileNames == {"a.txt"}    \* the files a watched tree may hold
DirNames == {"sub"}
Names == FileNames \cup DirNames

RootPath == <<"root">>     \* the directory read()/copy() is called on
DestPath == <<"dest">>     \* the destination of copy()

Undefined == "undefined"   \* a field that was never assigned
NoError == [path |-> <<>>, code |-> "none"]
NoMatcher == [kind |-> "null", arg |-> ""]

Last(s) == s[Len(s)]
Front(s) == SubSeq(s, 1, Len(s) - 1)

\* path.join / Array.join("/") over the names of a path
RECURSIVE JoinNames(_)
JoinNames(p) ==
    IF Len(p) = 0 THEN ""
    ELSE IF Len(p) = 1 THEN p[1]
    ELSE JoinNames(Front(p)) \o "/" \o Last(p)

\* the absolute path string of a node
PathStr(p) == "/" \o JoinNames(p)

\* every relative path the bounds allow, as a sequence of names
RelPaths == UNION {[1..n -> Names] : n \in 1..(MaxDepth + 1)}

\* the strings whose last path component is n
BaseNameStrings(n) ==
    {JoinNames(p) : p \in {q \in RelPaths : Last(q) = n}}
        \cup {PathStr(RootPath \o p) : p \in {q \in RelPaths : Last(q) = n}}
        \cup {PathStr(DestPath \o p) : p \in {q \in RelPaths : Last(q) = n}}

BaseMatches == [n \in Names |-> BaseNameStrings(n)]

\* the strings one of whose path components is n
ContainsStrings(n) ==
    {JoinNames(p) : p \in {q \in RelPaths : \E i \in DOMAIN q : q[i] = n}}
        \cup {PathStr(RootPath \o p) : p \in {q \in RelPaths : \E i \in DOMAIN q : q[i] = n}}
        \cup {PathStr(DestPath \o p) : p \in {q \in RelPaths : \E i \in DOMAIN q : q[i] = n}}

ContainsMatches == [n \in Names |-> ContainsStrings(n)]

(***************************************************************************)
(* FSTools.createFileMatch: a pattern compiled into a predicate over a     *)
(* string.  Three kinds of pattern: a literal (matches the string itself), *)
(* a base-name glob (matches every path ending in the name) and a          *)
(* component pattern (matches every path one of whose names it is).        *)
(***************************************************************************)
Matchers ==
    { [kind |-> "literal", arg |-> "a.txt"],
      [kind |-> "literal", arg |-> "sub"],
      [kind |-> "base", arg |-> "a.txt"] }

Test(m, s) ==
    CASE m.kind = "literal" -> s = m.arg
      [] m.kind = "base" -> s \in BaseMatches[m.arg]
      [] m.kind = "contains" -> s \in ContainsMatches[m.arg]
      [] OTHER -> FALSE

createFileMatch(pattern) == pattern

\* the ignore patterns given to read(): also one that matches a name and every
\* full path holding that name
IgnoreMatchers == Matchers \cup {[kind |-> "contains", arg |-> "sub"]}

\* the ignore patterns given to watch()
WatchIgnores == {NoMatcher, [kind |-> "contains", arg |-> "sub"]}

(***************************************************************************)
(* Filesystem primitives.                                                  *)
(***************************************************************************)
Exists(p) == p \in DOMAIN fs
IsDir(p) == Exists(p) /\ fs[p].isDir
Children(d) == {n \in Names : Exists(Append(d, n))}

\* FSTools.readDir: the names in the directory, in listing order
readDir(d) ==
    LET inDir(n) == n \in Children(d)
    IN SelectSeq(listing, inDir)

\* SuperFSDir.create / SuperFSFile.create: the materialized entry of a path
create(p) ==
    [path |-> p, name |-> Last(p), isDir |-> fs[p].isDir, relative |-> Undefined,
     fileExists |-> Undefined, fileOverwritten |-> Undefined]

(***************************************************************************)
(* SuperFSDir.read                                                         *)
(***************************************************************************)
DefaultOpts ==
    [recursive |-> FALSE, relativePath |-> "", skipFiles |-> FALSE,
     skipDirs |-> FALSE, addParent |-> FALSE, filter |-> NoMatcher,
     ignore |-> NoMatcher]

\* ignoreRaw with the polarity of a .gitignore: matching names are dropped
ignoreRaw_DropsMatches(o, rawFiles) ==
    LET keep(file) == ~Test(createFileMatch(o.ignore), file)
    IN IF o.ignore # NoMatcher THEN SelectSeq(rawFiles, keep) ELSE rawFiles

\* dir.js:77-85, the first ignore pass over the raw names
ignoreRaw(o, rawFiles) ==
    LET keep(file) == Test(createFileMatch(o.ignore), file)
    IN IF o.ignore # NoMatcher THEN SelectSeq(rawFiles, keep) ELSE rawFiles

\* relativeOf without the prefix of the directory
relativeOf_NoPrefix(o, name) == name

\* dir.js:95 / 102 / 129, the relative path of a child
relativeOf(o, name) ==
    IF o.relativePath # "" THEN o.relativePath \o "/" \o name ELSE name

\* dirIncluded that needs a filter to be given
dirIncluded_NeedsFilter(o, dir) ==
    ~o.skipDirs /\ (o.filter # NoMatcher /\ Test(createFileMatch(o.filter), dir.relative))

\* dirIncluded that leaves a directory out only when skipDirs is set and the filter rejects it
dirIncluded_SkipAndReject(o, dir) ==
    ~(o.skipDirs /\ o.filter # NoMatcher /\ ~Test(createFileMatch(o.filter), dir.relative))

\* dir.js:96, whether the directory child is pushed
dirIncluded(o, dir) ==
    ~o.skipDirs /\ (o.filter = NoMatcher \/ Test(createFileMatch(o.filter), dir.relative))

\* dir.js:116-122, whether the file child is pushed
fileIncluded(o, filepath) ==
    /\ ~o.skipFiles
    /\ ~(o.filter # NoMatcher /\ ~Test(createFileMatch(o.filter), PathStr(filepath)))

\* subOpts that passes addParent on to the nested read
subOpts_KeepsAddParent(o, file) ==
    [o EXCEPT !.relativePath = relativeOf(o, file)]

\* dir.js:101-105, the options of the nested read
subOpts(o, file) ==
    [o EXCEPT !.relativePath = relativeOf(o, file), !.addParent = FALSE]

ignoreSub_KeepsAll(o, subFiles) == subFiles

\* dir.js:107-113, the second ignore pass over the nested results
ignoreSub(o, subFiles) ==
    LET keep(s) == ~(o.ignore # NoMatcher /\ Test(createFileMatch(o.ignore), PathStr(s.path)))
    IN SelectSeq(subFiles, keep)

\* dir.js:67-69, the entry of the directory itself
parentEntry(o, d) == IF o.addParent THEN <<create(d)>> ELSE <<>>

RECURSIVE read(_, _), readLoop(_, _, _)

\* readEntry that pushes a directory after its descendants
readEntry_ChildrenFirst(d, o, file) ==
    LET filepath == Append(d, file)
    IN IF fs[filepath].isDir
       THEN LET dir == [create(filepath) EXCEPT !.relative = relativeOf(o, Last(filepath))]
                own == IF dirIncluded(o, dir) THEN <<dir>> ELSE <<>>
                sub == IF o.recursive
                       THEN ignoreSub(o, read(filepath, subOpts(o, file)))
                       ELSE <<>>
            IN sub \o own
       ELSE IF fileIncluded(o, filepath)
            THEN <<[create(filepath) EXCEPT !.relative = relativeOf(o, Last(filepath))]>>
            ELSE <<>>

\* readEntry that descends only into the directories it pushes
readEntry_Pruning(d, o, file) ==
    LET filepath == Append(d, file)
    IN IF fs[filepath].isDir
       THEN LET dir == [create(filepath) EXCEPT !.relative = relativeOf(o, Last(filepath))]
            IN IF dirIncluded(o, dir)
               THEN <<dir>> \o (IF o.recursive
                                THEN ignoreSub(o, read(filepath, subOpts(o, file)))
                                ELSE <<>>)
               ELSE <<>>
       ELSE IF fileIncluded(o, filepath)
            THEN <<[create(filepath) EXCEPT !.relative = relativeOf(o, Last(filepath))]>>
            ELSE <<>>

\* dir.js:87-132, one iteration of the for-loop: what it pushes
readEntry(d, o, file) ==
    LET filepath == Append(d, file)
    IN IF fs[filepath].isDir
       THEN LET dir == [create(filepath) EXCEPT !.relative = relativeOf(o, Last(filepath))]
                own == IF dirIncluded(o, dir) THEN <<dir>> ELSE <<>>
                sub == IF o.recursive
                       THEN ignoreSub(o, read(filepath, subOpts(o, file)))
                       ELSE <<>>
            IN own \o sub
       ELSE IF fileIncluded(o, filepath)
            THEN <<[create(filepath) EXCEPT !.relative = relativeOf(o, Last(filepath))]>>
            ELSE <<>>

readLoop(d, o, rawFiles) ==
    IF rawFiles = <<>> THEN <<>>
    ELSE readEntry(d, o, Head(rawFiles)) \o readLoop(d, o, Tail(rawFiles))

read(d, o) ==
    parentEntry(o, d) \o readLoop(d, o, ignoreRaw(o, readDir(d)))

(***************************************************************************)
(* SuperFSDir.mkdir and SuperFSDir.copy                                    *)
(***************************************************************************)
DirNode == [isDir |-> TRUE, data |-> ""]

\* FSTools.createPathArray: the ancestors of a directory, root first
createPathArray(dir) == [i \in 1..Len(dir) |-> SubSeq(dir, 1, i)]

\* dir.js:154-160, the loop of mkdir: each missing ancestor is created
RECURSIVE mkdirLoop(_, _)
mkdirLoop(f, dirs) ==
    IF dirs = <<>> THEN f
    ELSE IF Head(dirs) \in DOMAIN f
         THEN mkdirLoop(f, Tail(dirs))
         ELSE mkdirLoop(f @@ (Head(dirs) :> DirNode), Tail(dirs))

mkdir(f, dir) == mkdirLoop(f, createPathArray(dir))

\* FSTools.writeFile: creates the file or replaces its content
writeFile(f, p, d) ==
    [q \in DOMAIN f \cup {p} |-> IF q = p THEN [isDir |-> FALSE, data |-> d] ELSE f[q]]

\* String.split("/") of a relative path, as path.join(dest, relative) reads it
splitPath(str) == CHOOSE p \in RelPaths : JoinNames(p) = str

\* dir.js:187
destFileOf(fl) == DestPath \o splitPath(fl.relative)

\* dir.js:165-175, the forms of the opts argument
CopyArgs == {"true", "overwrite"}

copyOpts(arg) ==
    IF arg = "true"
    THEN [recursive |-> TRUE, overwrite |-> FALSE]
    ELSE [recursive |-> TRUE, overwrite |-> TRUE]

\* needsWrite that writes whatever exists
needsWrite_Always(targetExists, o) == TRUE

\* needsWrite that never replaces a file
needsWrite_OnlyMissing(targetExists, o) == ~targetExists

\* dir.js:195, whether the destination file is written
needsWrite(targetExists, o) == ~targetExists \/ o.overwrite

\* dir.js:193-194, the audit fields of a file entry
audit(fl, targetExists, o) ==
    [fl EXCEPT !.fileExists = targetExists, !.fileOverwritten = o.overwrite]

\* dir.js:178-184: the destination is created if missing, the source is read
CopyBegin(o) ==
    /\ opts' = o
    /\ fs' = IF ~Exists(DestPath) THEN mkdir(fs, DestPath) ELSE fs
    /\ result' = read(RootPath, [DefaultOpts EXCEPT !.recursive = TRUE])
    /\ idx' = 1
    /\ written' = {}
    /\ pc' = "copy"
    /\ UNCHANGED <<listing, data, run, firstFs, delVars, watchVars, mkVars>>

\* a caller runs root.copy(dest, arg)
CopyStart ==
    /\ pc = "setup"
    /\ \E arg \in CopyArgs : CopyBegin(copyOpts(arg))

\* the caller runs the same copy once more
CopyAgain ==
    /\ pc = "done"
    /\ run < MaxRuns
    /\ CopyBegin(opts)

\* dir.js:188-189, the entry is a directory
CopyDir ==
    /\ pc = "copy"
    /\ idx <= Len(result)
    /\ result[idx].isDir
    /\ fs' = mkdir(fs, destFileOf(result[idx]))
    /\ idx' = idx + 1
    /\ UNCHANGED <<listing, pc, opts, result, data, run, written, firstFs, delVars, watchVars, mkVars>>

\* dir.js:191-195, the entry is a file: its content is read, the destination checked
CopyFile ==
    /\ pc = "copy"
    /\ idx <= Len(result)
    /\ ~result[idx].isDir
    /\ LET targetExists == Exists(destFileOf(result[idx]))
       IN /\ data' = fs[result[idx].path].data
          /\ result' = [result EXCEPT ![idx] = audit(result[idx], targetExists, opts)]
          /\ IF needsWrite(targetExists, opts)
             THEN pc' = "write" /\ idx' = idx
             ELSE pc' = "copy" /\ idx' = idx + 1
    /\ UNCHANGED <<fs, listing, opts, run, written, firstFs, delVars, watchVars, mkVars>>

\* dir.js:196-198, the destination file is written
CopyWrite ==
    /\ pc = "write"
    /\ fs' = writeFile(fs, destFileOf(result[idx]), data)
    /\ written' = written \cup {destFileOf(result[idx])}
    /\ idx' = idx + 1
    /\ pc' = "copy"
    /\ UNCHANGED <<listing, opts, result, data, run, firstFs, delVars, watchVars, mkVars>>

\* dir.js:204, copy resolves with the entries
CopyReturn ==
    /\ pc = "copy"
    /\ idx > Len(result)
    /\ pc' = "done"
    /\ run' = run + 1
    /\ firstFs' = IF run = 0 THEN fs ELSE firstFs
    /\ UNCHANGED <<fs, listing, opts, result, idx, data, written, delVars, watchVars, mkVars>>

(***************************************************************************)
(* SuperFSDir.delete                                                       *)
(*                                                                         *)
(* The comparator of dir.js:214 looks at its first argument only, so it    *)
(* is not a consistent comparison function and the order sort() leaves     *)
(* depends on the algorithm of the runtime.  Two runtimes are modelled by  *)
(* their algorithms: the insertion sort V8 used for arrays of up to        *)
(* InsertionSortMax elements, and the TimSort of V8 since 7.0, which for   *)
(* an array this short is one run followed by binary insertion.            *)
(***************************************************************************)
InsertionSortMax == 10

\* dir.js:214, (a, b) => a.isDir ? 1 : -1
compare(a, b) == IF a.isDir THEN 1 ELSE -1

insertAt(s, k, e) == SubSeq(s, 1, k) \o <<e>> \o SubSeq(s, k + 1, Len(s))

Reverse(s) == [i \in 1..Len(s) |-> s[Len(s) + 1 - i]]

\* insertion sort: the element moves left past every tmp with compare(tmp, element) > 0
RECURSIVE insertionPos(_, _, _)
insertionPos(s, element, j) ==
    IF j >= 1 /\ compare(s[j], element) > 0
    THEN insertionPos(s, element, j - 1)
    ELSE j

RECURSIVE insertionSort(_, _)
insertionSort(sorted, rest) ==
    IF rest = <<>> THEN sorted
    ELSE insertionSort(insertAt(sorted, insertionPos(sorted, Head(rest), Len(sorted)), Head(rest)),
                       Tail(rest))

\* TimSort: the length of the run the array starts with
RECURSIVE runLength(_, _, _)
runLength(s, descending, k) ==
    IF k > Len(s) THEN Len(s)
    ELSE IF descending = (compare(s[k], s[k - 1]) < 0)
         THEN runLength(s, descending, k + 1)
         ELSE k - 1

\* TimSort: binary search of the place of the pivot among the sorted elements
RECURSIVE binaryPos(_, _, _, _)
binaryPos(s, pivot, left, right) ==
    IF left < right
    THEN LET mid == left + ((right - left) \div 2)
         IN IF compare(pivot, s[mid + 1]) < 0
            THEN binaryPos(s, pivot, left, mid)
            ELSE binaryPos(s, pivot, mid + 1, right)
    ELSE left

RECURSIVE binaryInsertionSort(_, _)
binaryInsertionSort(sorted, rest) ==
    IF rest = <<>> THEN sorted
    ELSE binaryInsertionSort(insertAt(sorted, binaryPos(sorted, Head(rest), 0, Len(sorted)), Head(rest)),
                             Tail(rest))

timSort(s) ==
    IF Len(s) < 2 THEN s
    ELSE LET descending == compare(s[2], s[1]) < 0
             n == runLength(s, descending, 3)
             first == IF descending THEN Reverse(SubSeq(s, 1, n)) ELSE SubSeq(s, 1, n)
         IN binaryInsertionSort(first, SubSeq(s, n + 1, Len(s)))

\* the runtimes that can sort an array of this length
Engines(files) ==
    {"timsort"} \cup (IF Len(files) <= InsertionSortMax THEN {"insertion"} ELSE {})

\* dir.js:214, files.sort(comparator)
sort(files, e) ==
    IF e = "insertion" THEN insertionSort(<<>>, files) ELSE timSort(files)

\* deleteOpts that asks for the directory itself as well
deleteOpts_AddParent == [DefaultOpts EXCEPT !.recursive = TRUE, !.addParent = TRUE]

\* dir.js:210-212, the options of the read of delete
deleteOpts == [DefaultOpts EXCEPT !.recursive = TRUE]

HasChildren(p) == \E q \in DOMAIN fs : Len(q) = Len(p) + 1 /\ SubSeq(q, 1, Len(p)) = p

\* FSTools.removeDir / FSTools.removeFile: the error of the call, "none" if it succeeds
removeError(fl) ==
    IF ~Exists(fl.path) THEN "ENOENT"
    ELSE IF fl.isDir /\ HasChildren(fl.path) THEN "ENOTEMPTY"
    ELSE "none"

remove(f, p) == [q \in DOMAIN f \ {p} |-> f[q]]

\* afterFailure that swallows the failure and goes on with the next entry
afterFailure_Continue(i) == [pc |-> "delete", idx |-> i + 1]

\* the generator after a rejected yield: nothing catches, the loop is left
afterFailure(i) == [pc |-> "rejected", idx |-> i]

\* a caller runs root.delete(): the tree is read and sorted
DeleteStart ==
    /\ pc = "setup"
    /\ LET files == read(RootPath, deleteOpts)
       IN \E e \in Engines(files) :
             /\ engine' = e
             /\ result' = sort(files, e)
    /\ idx' = 1
    /\ removed' = <<>>
    /\ error' = NoError
    /\ pc' = "delete"
    /\ UNCHANGED <<fs, listing, opts, data, run, written, firstFs, watchVars, mkVars>>

\* dir.js:215-221, one entry is removed, or its removal fails
DeleteEntry ==
    /\ pc = "delete"
    /\ idx <= Len(result)
    /\ LET fl == result[idx]
           err == removeError(fl)
       IN IF err = "none"
          THEN /\ fs' = remove(fs, fl.path)
               /\ removed' = Append(removed, fl.path)
               /\ idx' = idx + 1
               /\ UNCHANGED <<pc, error>>
          ELSE /\ error' = [path |-> fl.path, code |-> err]
               /\ pc' = afterFailure(idx).pc
               /\ idx' = afterFailure(idx).idx
               /\ UNCHANGED <<fs, removed>>
    /\ UNCHANGED <<listing, opts, result, data, run, written, firstFs, engine, watchVars, mkVars>>

\* dir.js:215-221, the removal is refused by the operating system
DeleteDenied ==
    /\ pc = "delete"
    /\ idx <= Len(result)
    /\ error' = [path |-> result[idx].path, code |-> "EACCES"]
    /\ pc' = afterFailure(idx).pc
    /\ idx' = afterFailure(idx).idx
    /\ UNCHANGED <<fs, listing, opts, result, data, run, written, firstFs, engine, removed, watchVars, mkVars>>

\* dir.js:223, delete resolves with the sorted entries
DeleteReturn ==
    /\ pc = "delete"
    /\ idx > Len(result)
    /\ pc' = "deleted"
    /\ UNCHANGED <<fs, listing, opts, result, idx, data, run, written, firstFs, delVars, watchVars, mkVars>>

(***************************************************************************)
(* SuperFSDir.watch                                                        *)
(***************************************************************************)
QuietPeriod == 500

EventNames == {"change"}
Callbacks == {"returns", "throws"}     \* what the consumer callback fn does

NoTimer == -1
Never == -1

\* dir.js:261-265, the options of the read of watch
watchOpts ==
    [DefaultOpts EXCEPT !.recursive = TRUE, !.skipFiles = TRUE, !.addParent = TRUE]

\* dir.js:272, whether the directory gets no listener
watchIgnored(o, fl) ==
    o.ignore # NoMatcher /\ Test(createFileMatch(o.ignore), PathStr(fl.path))

\* a listener fs.watch has just attached
NewWatcher ==
    [lock |-> FALSE, timer |-> NoTimer, changeMode |-> Undefined,
     changedFile |-> Undefined, count |-> 0, last |-> Never, dropped |-> FALSE]

\* dir.js:290, the list watch resolves with
watchReturn(dirs, o) == dirs

releaseAt_Immediately(t) == t

\* dir.js:284-286, when the timer releases the lock taken at time t
releaseAt(t) == t + QuietPeriod

\* a caller runs root.watch(o, fn)
WatchStart ==
    /\ pc = "setup"
    /\ \E ig \in WatchIgnores :
          LET o == [ignore |-> ig]
              dirs == read(RootPath, watchOpts)
              kept == {i \in DOMAIN dirs : ~watchIgnored(o, dirs[i])}
          IN /\ opts' = o
             /\ watchers' = [p \in {dirs[i].path : i \in kept} |-> NewWatcher]
             /\ result' = watchReturn(dirs, o)
    /\ pc' = "watching"
    /\ UNCHANGED <<fs, listing, idx, data, run, written, firstFs, delVars, now, mkVars>>

\* dir.js:276-287, fileChangeHandler: the runtime reports a change of directory d
NativeEvent ==
    /\ pc = "watching"
    /\ \E d \in DOMAIN watchers, eventName \in EventNames, fileName \in WatchFileNames,
          fn \in Callbacks :
          LET w == watchers[d]
          IN IF w.lock
             THEN watchers' = [watchers EXCEPT ![d].dropped = TRUE]
             ELSE /\ w.count < MaxCalls
                  /\ watchers' =
                        [watchers EXCEPT
                            ![d] = [lock |-> TRUE,
                                    timer |-> IF fn = "returns" THEN releaseAt(now) ELSE NoTimer,
                                    changeMode |-> eventName,
                                    changedFile |-> fileName,
                                    count |-> w.count + 1,
                                    last |-> now,
                                    dropped |-> FALSE]]
    /\ UNCHANGED <<fs, listing, pc, opts, result, idx, data, run, written, firstFs, delVars, now, mkVars>>

\* dir.js:284-286, the timer of directory d fires
TimerFire ==
    /\ pc = "watching"
    /\ \E d \in DOMAIN watchers :
          /\ watchers[d].timer # NoTimer
          /\ now >= watchers[d].timer
          /\ watchers' = [watchers EXCEPT ![d].lock = FALSE, ![d].timer = NoTimer]
    /\ UNCHANGED <<fs, listing, pc, opts, result, idx, data, run, written, firstFs, delVars, now, mkVars>>

\* time passes
Tick ==
    /\ pc = "watching"
    /\ now + TickStep <= MaxTime
    /\ now' = now + TickStep
    /\ UNCHANGED <<fs, listing, pc, opts, result, idx, data, run, written, firstFs, delVars, watchers, mkVars>>

(***************************************************************************)
(* The recursive mkdir helper (part_000).  A call is a frame; the callback  *)
(* of a nested call runs in the frame of the call that made it.            *)
(***************************************************************************)
FsRoot == <<>>      \* the path "/"

\* the directories a caller asks for
MkTargets == {<<h>> \o [i \in 1..k |-> "sub"] : h \in {"root", "new"}, k \in 0..MkDepth}

\* part_000:7-8, fs.access(dir) reports an error
accessFails(dir) == ~Exists(dir)

\* part_000:12, path.join(dir, '../')
curDirOf(dir) == Front(dir)

\* part_000:22, the error of fs.mkdir(dir)
fsMkdirError(dir) ==
    IF Exists(dir) THEN "EEXIST"
    ELSE IF curDirOf(dir) # FsRoot /\ ~IsDir(curDirOf(dir)) THEN "ENOENT"
    ELSE "none"

\* part_000:17-25, the innermost call calls done(err): the caller's callback is
\* called if it was the outermost call or err is set, else the call that made
\* it goes on to fs.mkdir
done(err) ==
    IF Len(frames) = 1 \/ err # "none"
    THEN pc' = "called" /\ frames' = <<>> /\ mkErr' = err
    ELSE pc' = "mkdir" /\ frames' = Front(frames) /\ mkErr' = mkErr

\* a caller runs mkdir(t, callback)
MkdirCall ==
    /\ pc = "setup"
    /\ \E t \in MkTargets :
          /\ target' = t
          /\ frames' = <<t>>
    /\ pc' = "access"
    /\ UNCHANGED <<fs, listing, opts, result, idx, data, run, written, firstFs, delVars, watchVars, mkErr>>

\* part_000:7-17, the callback of fs.access of the innermost call
MkdirAccess ==
    /\ pc = "access"
    /\ LET dir == Last(frames)
       IN IF ~accessFails(dir)
          THEN done("none")
          ELSE IF curDirOf(dir) = FsRoot
               THEN done("none")
               ELSE pc' = "access" /\ frames' = Append(frames, curDirOf(dir)) /\ mkErr' = mkErr
    /\ UNCHANGED <<fs, listing, opts, result, idx, data, run, written, firstFs, delVars, watchVars, target>>

\* part_000:22-24, fs.mkdir(dir) of the innermost call and its callback
MkdirCreate ==
    /\ pc = "mkdir"
    /\ LET dir == Last(frames)
           err == fsMkdirError(dir)
       IN /\ fs' = IF err = "none" THEN fs @@ (dir :> DirNode) ELSE fs
          /\ done(err)
    /\ UNCHANGED <<listing, opts, result, idx, data, run, written, firstFs, delVars, watchVars, target>>

\* part_000:22-24, fs.mkdir(dir) is refused by the operating system
MkdirDenied ==
    /\ pc = "mkdir"
    /\ done("EACCES")
    /\ UNCHANGED <<fs, listing, opts, result, idx, data, run, written, firstFs, delVars, watchVars, target>>

(***************************************************************************)
(* The environment: other programs create the trees.                       *)
(***************************************************************************)
Perms == {s \in [1..Cardinality(Names) -> Names] : \A i, j \in 1..Cardinality(Names) : s[i] = s[j] => i = j}

InitFs == (RootPath :> DirNode)

Init ==
    /\ fs = InitFs
    /\ listing \in Perms
    /\ pc = "setup"
    /\ opts = DefaultOpts
    /\ result = <<>>
    /\ idx = 0
    /\ data = ""
    /\ run = 0
    /\ written = {}
    /\ firstFs = InitFs
    /\ engine = "none"
    /\ removed = <<>>
    /\ error = NoError
    /\ now = 0
    /\ watchers = <<>>
    /\ target = <<>>
    /\ frames = <<>>
    /\ mkErr = "pending"

\* another program creates a directory below source or destination
MkdirUnder(root, depth) ==
    \E d \in DOMAIN fs, n \in DirNames :
        /\ fs[d].isDir
        /\ d[1] = root[1]
        /\ Len(d) - Len(root) < depth
        /\ ~Exists(Append(d, n))
        /\ fs' = fs @@ (Append(d, n) :> DirNode)

\* another program creates a file below source or destination
WriteUnder(root, names, content) ==
    \E d \in DOMAIN fs, n \in names :
        /\ fs[d].isDir
        /\ d[1] = root[1]
        /\ ~Exists(Append(d, n))
        /\ fs' = fs @@ (Append(d, n) :> [isDir |-> FALSE, data |-> content])

\* another program creates a sub-directory somewhere in the tree read() is run on
EnvMkdir ==
    /\ pc = "setup"
    /\ MkdirUnder(RootPath, MaxDepth)
    /\ UNCHANGED <<listing, pc, opts, result, idx, data, run, written, firstFs, delVars, watchVars, mkVars>>

\* another program creates a file somewhere in the tree read() is run on
EnvWriteFile ==
    /\ pc = "setup"
    /\ WriteUnder(RootPath, FileNames, "new")
    /\ UNCHANGED <<listing, pc, opts, result, idx, data, run, written, firstFs, delVars, watchVars, mkVars>>

ReadOpts ==
    {[recursive |-> r, relativePath |-> "", skipFiles |-> sf, skipDirs |-> sd,
      addParent |-> ap, filter |-> f, ignore |-> ig] :
        r \in BOOLEAN, sf \in BOOLEAN, sd \in BOOLEAN, ap \in BOOLEAN,
        f \in Matchers \cup {NoMatcher}, ig \in IgnoreMatchers \cup {NoMatcher}}

\* a caller runs root.read(o) on the tree as it is
Read ==
    /\ pc = "setup"
    /\ \E o \in ReadOpts :
          /\ opts' = o
          /\ result' = read(RootPath, o)
    /\ pc' = "read"
    /\ UNCHANGED <<fs, listing, idx, data, run, written, firstFs, delVars, watchVars, mkVars>>

NextRead == EnvMkdir \/ EnvWriteFile \/ Read

SpecRead == Init /\ [][NextRead]_vars

EnvMkdirSource ==
    /\ pc = "setup"
    /\ MkdirUnder(RootPath, CopyDepth)
    /\ UNCHANGED <<listing, pc, opts, result, idx, data, run, written, firstFs, delVars, watchVars, mkVars>>

EnvWriteSource ==
    /\ pc = "setup"
    /\ WriteUnder(RootPath, FileNames, "new")
    /\ UNCHANGED <<listing, pc, opts, result, idx, data, run, written, firstFs, delVars, watchVars, mkVars>>

EnvMkdirDest ==
    /\ pc = "setup"
    /\ IF Exists(DestPath)
       THEN MkdirUnder(DestPath, CopyDepth)
       ELSE fs' = fs @@ (DestPath :> DirNode)
    /\ UNCHANGED <<listing, pc, opts, result, idx, data, run, written, firstFs, delVars, watchVars, mkVars>>

EnvWriteDest ==
    /\ pc = "setup"
    /\ WriteUnder(DestPath, DestFileNames, "old")
    /\ UNCHANGED <<listing, pc, opts, result, idx, data, run, written, firstFs, delVars, watchVars, mkVars>>

NextCopy ==
    \/ EnvMkdirSource \/ EnvWriteSource \/ EnvMkdirDest \/ EnvWriteDest
    \/ CopyStart \/ CopyAgain \/ CopyDir \/ CopyFile \/ CopyWrite \/ CopyReturn

SpecCopy == Init /\ [][NextCopy]_vars

\* another operation (a second copy to the same destination, say) creates a
\* destination file while copy is between two of its steps
RivalWrite ==
    /\ pc \in {"copy", "write"}
    /\ WriteUnder(DestPath, DestFileNames, "rival")
    /\ UNCHANGED <<listing, pc, opts, result, idx, data, run, written, firstFs, delVars, watchVars, mkVars>>

NextRace ==
    \/ EnvMkdirSource \/ EnvWriteSource \/ EnvMkdirDest \/ EnvWriteDest
    \/ CopyStart \/ CopyDir \/ CopyFile \/ CopyWrite \/ CopyReturn
    \/ RivalWrite

SpecRace == Init /\ [][NextRace]_vars

EnvMkdirDelete ==
    /\ pc = "setup"
    /\ MkdirUnder(RootPath, DeleteDepth)
    /\ UNCHANGED <<listing, pc, opts, result, idx, data, run, written, firstFs, delVars, watchVars, mkVars>>

EnvWriteDelete ==
    /\ pc = "setup"
    /\ WriteUnder(RootPath, FileNames, "new")
    /\ UNCHANGED <<listing, pc, opts, result, idx, data, run, written, firstFs, delVars, watchVars, mkVars>>

NextDelete ==
    \/ EnvMkdirDelete \/ EnvWriteDelete
    \/ DeleteStart \/ DeleteEntry \/ DeleteDenied \/ DeleteReturn

SpecDelete == Init /\ [][NextDelete]_vars

EnvMkdirWatch ==
    /\ pc = "setup"
    /\ MkdirUnder(RootPath, WatchDepth)
    /\ UNCHANGED <<listing, pc, opts, result, idx, data, run, written, firstFs, delVars, watchVars, mkVars>>

EnvWriteWatch ==
    /\ pc = "setup"
    /\ WriteUnder(RootPath, WatchFileNames, "new")
    /\ UNCHANGED <<listing, pc, opts, result, idx, data, run, written, firstFs, delVars, watchVars, mkVars>>

NextWatch ==
    \/ EnvMkdirWatch \/ EnvWriteWatch
    \/ WatchStart \/ NativeEvent \/ TimerFire \/ Tick

\* the order of the listing does not matter to the listeners: one order is taken
InitWatch == Init /\ listing = <<"a.txt", "b.txt", "sub">>

SpecWatch == InitWatch /\ [][NextWatch]_vars

EnvMkdirTree ==
    /\ pc = "setup"
    /\ MkdirUnder(RootPath, MkDepth)
    /\ UNCHANGED <<listing, pc, opts, result, idx, data, run, written, firstFs, delVars, watchVars, mkVars>>

NextMkdir == EnvMkdirTree \/ MkdirCall \/ MkdirAccess \/ MkdirCreate \/ MkdirDenied

SpecMkdir == Init /\ [][NextMkdir]_vars

(***************************************************************************)
(* What the claims speak about.                                            *)
(***************************************************************************)
Below(p) == Len(p) > Len(RootPath) /\ SubSeq(p, 1, Len(RootPath)) = RootPath
RelOf(p) == SubSeq(p, Len(RootPath) + 1, Len(p))
Paths(res) == {res[i].path : i \in DOMAIN res}
Relatives(res) == [i \in DOMAIN res |-> res[i].relative]
Occurrences(res, p) == Cardinality({i \in DOMAIN res : res[i].path = p})
Pos(n) == CHOOSE i \in DOMAIN listing : listing[i] = n
IsPrefix(p, q) == Len(p) < Len(q) /\ SubSeq(q, 1, Len(p)) = p

\* p comes before q in a depth-first walk that lists every directory in listing order
PreorderBefore(p, q) ==
    \/ IsPrefix(p, q)
    \/ \E k \in 1..Len(p) :
          /\ k <= Len(q)
          /\ SubSeq(p, 1, k - 1) = SubSeq(q, 1, k - 1)
          /\ p[k] # q[k]
          /\ Pos(p[k]) < Pos(q[k])

Plain(o) ==
    /\ o.filter = NoMatcher
    /\ o.ignore = NoMatcher
    /\ ~o.skipFiles
    /\ ~o.skipDirs

RecursiveOnly == [DefaultOpts EXCEPT !.recursive = TRUE]

\* the tree root/{a.txt, sub/b.txt}
ExampleTree ==
    DOMAIN fs = {RootPath, RootPath \o <<"a.txt">>, RootPath \o <<"sub">>,
                 RootPath \o <<"sub", "b.txt">>}

\* C1: a recursive read without filter, ignore, skipFiles and skipDirs returns
\* every file and every directory below the root exactly once, and the relative
\* of each returned entry is the names on its path from the root joined by "/".
C1_ReadReturnsWholeTree ==
    (pc = "read" /\ opts.recursive /\ Plain(opts)) =>
        /\ \A p \in DOMAIN fs : Below(p) => Occurrences(result, p) = 1
        /\ \A i \in DOMAIN result :
              Below(result[i].path) =>
                 /\ result[i].path \in DOMAIN fs
                 /\ result[i].relative = JoinNames(RelOf(result[i].path))

C1_Witness ==
    /\ pc = "read" /\ opts.recursive /\ Plain(opts)
    /\ RootPath \o <<"sub", "sub", "a.txt">> \in Paths(result)
    /\ RootPath \o <<"sub", "b.txt">> \in Paths(result)
    /\ RootPath \o <<"a.txt">> \in Paths(result)

\* C2: the sequence read returns is in depth-first listing order: of two
\* entries the earlier one is an ancestor of the later one, or lies in the
\* sub-tree of a name listed earlier in their common directory; so a directory
\* is followed by its descendants before its next sibling appears.
C2_ReadIsDepthFirst ==
    pc = "read" =>
        \A i, j \in DOMAIN result :
            i < j => PreorderBefore(result[i].path, result[j].path)

C2_Witness ==
    /\ pc = "read" /\ opts.recursive
    /\ \E i, j, k \in DOMAIN result :
          /\ i < j /\ j < k
          /\ result[i].isDir
          /\ Below(result[i].path)
          /\ IsPrefix(result[i].path, result[j].path)
          /\ Front(result[k].path) = Front(result[i].path)

\* C3 as stated: on root/{a.txt, sub/b.txt}, listed a.txt first, a recursive
\* read yields exactly the two entries a.txt and sub/b.txt.
C3_ExampleYieldsTwoEntries ==
    (pc = "read" /\ ExampleTree /\ opts = RecursiveOnly /\ Pos("a.txt") < Pos("sub")) =>
        Relatives(result) = <<"a.txt", "sub/b.txt">>

\* C3 amended: on root/{a.txt, sub/b.txt}, listed a.txt first, a recursive
\* read yields exactly three entries, a.txt, sub and sub/b.txt in that order:
\* the directory sub is an entry of its own.
C3_ExampleYieldsThreeEntries ==
    (pc = "read" /\ ExampleTree /\ opts = RecursiveOnly /\ Pos("a.txt") < Pos("sub")) =>
        Relatives(result) = <<"a.txt", "sub", "sub/b.txt">>

C3_Witness ==
    /\ pc = "read" /\ ExampleTree /\ opts = RecursiveOnly /\ Pos("a.txt") < Pos("sub")
    /\ Len(result) = 3

\* C4: with an ignore option a raw name is kept exactly when the ignore
\* matcher matches it: nothing is returned at or below a name the matcher does
\* not match, and (nothing else filtering) every child of the root whose name
\* the matcher matches is returned.
C4_IgnoreKeepsMatches ==
    (pc = "read" /\ opts.ignore # NoMatcher) =>
        /\ \A i \in DOMAIN result :
              \A k \in (Len(RootPath) + 1)..Len(result[i].path) :
                  Test(opts.ignore, result[i].path[k])
        /\ (opts.filter = NoMatcher /\ ~opts.skipFiles /\ ~opts.skipDirs) =>
              \A n \in Children(RootPath) :
                  Test(opts.ignore, n) => Append(RootPath, n) \in Paths(result)

C4_Witness ==
    /\ pc = "read" /\ opts.ignore # NoMatcher
    /\ opts.filter = NoMatcher /\ ~opts.skipFiles /\ ~opts.skipDirs /\ ~opts.addParent
    /\ \E n, m \in Children(RootPath) :
          /\ Test(opts.ignore, n) /\ Append(RootPath, n) \in Paths(result)
          /\ ~Test(opts.ignore, m) /\ Append(RootPath, m) \notin Paths(result)

\* C5 as stated: with a filter, a file is included exactly when the matcher
\* accepts its relative path (as a directory is).
C5_FilterTestsRelativeOfFiles ==
    (pc = "read" /\ opts.filter # NoMatcher /\ opts.ignore = NoMatcher /\ ~opts.skipFiles) =>
        \A n \in Children(RootPath) :
            ~IsDir(Append(RootPath, n)) =>
                (Append(RootPath, n) \in Paths(result) <=> Test(opts.filter, n))

\* C6 as stated: a directory child is included in every case except the one
\* where skipDirs is set and the directory fails the filter test.
C6_DirExcludedOnlyBySkipDirsAndFilter ==
    (pc = "read" /\ opts.ignore = NoMatcher) =>
        \A n \in Children(RootPath) :
            IsDir(Append(RootPath, n)) =>
                (Append(RootPath, n) \in Paths(result)
                    <=> ~(opts.skipDirs /\ opts.filter # NoMatcher /\ ~Test(opts.filter, n)))

\* C6 amended: a directory child is included exactly when skipDirs is not set
\* and the directory passes the filter test (no filter is given, or the filter
\* accepts the directory's relative path); in a recursive read this holds of
\* the directories at every depth.
C6_DirIncludedIffNotSkippedAndAccepted ==
    (pc = "read" /\ opts.ignore = NoMatcher) =>
        \A p \in DOMAIN fs :
            (Below(p) /\ fs[p].isDir /\ (opts.recursive \/ Front(p) = RootPath)) =>
                (p \in Paths(result)
                    <=> (~opts.skipDirs
                           /\ (opts.filter = NoMatcher \/ Test(opts.filter, JoinNames(RelOf(p))))))

C6_Witness ==
    /\ pc = "read" /\ opts.ignore = NoMatcher /\ opts.recursive
    /\ opts.skipDirs /\ opts.filter = NoMatcher /\ ~opts.addParent
    /\ IsDir(RootPath \o <<"sub", "sub">>)
    /\ RootPath \o <<"sub">> \notin Paths(result)
    /\ result # <<>>

\* C7: in a recursive read skipDirs and filter never prune the traversal:
\* every file, at any depth, that passes the file tests (skipFiles is not set
\* and the filter, if any, accepts its path) is returned, also below a
\* directory that is itself left out of the result.
C7_SkipDirsAndFilterDoNotPrune ==
    (pc = "read" /\ opts.recursive /\ opts.ignore = NoMatcher) =>
        \A p \in DOMAIN fs :
            (Below(p) /\ ~fs[p].isDir /\ ~opts.skipFiles
                /\ (opts.filter = NoMatcher \/ Test(opts.filter, PathStr(p))))
              => Occurrences(result, p) = 1

C7_Witness ==
    /\ pc = "read" /\ opts.recursive /\ opts.ignore = NoMatcher
    /\ opts.filter # NoMatcher /\ ~opts.skipDirs
    /\ RootPath \o <<"sub">> \notin Paths(result)
    /\ RootPath \o <<"sub", "sub">> \notin Paths(result)
    /\ RootPath \o <<"sub", "sub", "a.txt">> \in Paths(result)

\* C8: with addParent the result starts with the materialized entry of the
\* directory read was called on, whatever filter, skipDirs and ignore say, and
\* no path, the root's included, occurs twice: nested reads add no parent.
C8_AddParentOnceAndFirst ==
    (pc = "read" /\ opts.addParent) =>
        /\ Len(result) >= 1
        /\ result[1] = create(RootPath)
        /\ \A i, j \in DOMAIN result : result[i].path = result[j].path => i = j

C8_Witness ==
    /\ pc = "read" /\ opts.addParent /\ opts.recursive
    /\ opts.filter # NoMatcher /\ opts.ignore # NoMatcher
    /\ result[1].path = RootPath
    /\ IsDir(RootPath \o <<"sub", "sub">>)
    /\ RootPath \o <<"sub">> \in Paths(result)

DestOf(p) == DestPath \o RelOf(p)

\* C9: copy(dest, {overwrite: false}) run again on an unchanged source writes
\* no file and leaves the filesystem, the destination tree with it, exactly
\* as the first run left it.
C9_CopyTwiceIsIdempotent ==
    (pc = "done" /\ run >= 2 /\ ~opts.overwrite) =>
        /\ written = {}
        /\ fs = firstFs

C9_Witness ==
    /\ pc = "done" /\ run >= 2 /\ ~opts.overwrite
    /\ \E i, j \in DOMAIN result :
          /\ ~result[i].isDir /\ ~result[j].isDir
          /\ fs[DestOf(result[i].path)].data = "new"
          /\ fs[DestOf(result[j].path)].data = "old"
          /\ Len(result[i].path) > Len(RootPath) + 1

\* C10: copy(dest, {overwrite: true}) leaves every destination file that
\* corresponds to a source file with the source's content, and every entry
\* whose destination file existed and was replaced has fileOverwritten = TRUE.
C10_OverwriteReplacesContent ==
    (pc = "done" /\ opts.overwrite) =>
        \A i \in DOMAIN result :
            ~result[i].isDir =>
                /\ Exists(DestOf(result[i].path))
                /\ fs[DestOf(result[i].path)] = fs[result[i].path]
                /\ result[i].fileExists = TRUE => result[i].fileOverwritten = TRUE

C10_Witness ==
    /\ pc = "done" /\ opts.overwrite /\ run = 1
    /\ \E i \in DOMAIN result :
          /\ ~result[i].isDir
          /\ result[i].fileExists = TRUE
          /\ result[i].fileOverwritten = TRUE
          /\ DestOf(result[i].path) \in written
          /\ fs[DestOf(result[i].path)].data = "new"

\* C18 as stated: with overwrite false, copy never writes to a destination
\* path at which a file exists at the moment of the write, whatever another
\* operation did between the existence check and the write.
C18_NeverWritesOverExistingFile ==
    (pc = "write" /\ ~opts.overwrite) => ~Exists(destFileOf(result[idx]))

\* C18 amended: with overwrite false, copy writes only to a destination path
\* at which its own existence check found no file; what was created there
\* after the check is overwritten.
C18_WritesOnlyWhatItsCheckFoundMissing ==
    (pc = "write" /\ ~opts.overwrite) => result[idx].fileExists = FALSE

\* the check found nothing, another operation created the file, and the write
\* is about to replace it
C18_Witness ==
    /\ pc = "write" /\ ~opts.overwrite
    /\ result[idx].fileExists = FALSE
    /\ Exists(destFileOf(result[idx]))
    /\ fs[destFileOf(result[idx])].data = "rival"

\* C19 as stated: after copy, fileOverwritten is true only on a file entry
\* whose fileExists is true.
C19_OverwrittenOnlyIfExisted ==
    pc = "done" =>
        \A i \in DOMAIN result :
            ~result[i].isDir =>
                (result[i].fileOverwritten = TRUE => result[i].fileExists = TRUE)

\* C20 as stated: whenever the mkdir helper calls its callback without an
\* error, the requested directory exists together with all of its ancestors.
C20_NoErrorMeansDirectoryExists ==
    (pc = "called" /\ mkErr = "none") =>
        \A k \in 1..Len(target) : IsDir(SubSeq(target, 1, k))

Removed == {removed[i] : i \in DOMAIN removed}

\* C11: after delete() has resolved, the directory it was called on still
\* exists and nothing exists below it: every entry was removed, and the root
\* is not among the removed paths.
C11_DeleteLeavesEmptyRoot ==
    pc = "deleted" =>
        /\ IsDir(RootPath)
        /\ \A p \in DOMAIN fs : ~Below(p)
        /\ RootPath \notin Removed
        /\ Removed = Paths(result)

C11_Witness ==
    /\ pc = "deleted"
    /\ RootPath \o <<"sub", "a.txt">> \in Removed
    /\ RootPath \o <<"sub">> \in Removed
    /\ RootPath \o <<"b.txt">> \in Removed

\* C14 as stated: delete() removes children before parents, so that (nobody
\* else touching the tree) a directory is empty when its turn comes and no
\* removal of a directory fails as non-empty.
C14_ChildrenRemovedBeforeParents ==
    pc \in {"delete", "rejected", "deleted"} =>
        /\ error.code # "ENOTEMPTY"
        /\ (idx \in DOMAIN result /\ result[idx].isDir) => ~HasChildren(result[idx].path)

\* C15: delete() fails fast and does not roll back: once the removal of an
\* entry has failed, delete has rejected with the failure of that entry,
\* exactly the entries before it in the removal order are removed and stay
\* removed, and that entry and every later one are still there.
C15_DeleteFailsFastNoRollback ==
    error # NoError =>
        /\ pc = "rejected"
        /\ idx \in DOMAIN result
        /\ error.path = result[idx].path
        /\ removed = [i \in 1..(idx - 1) |-> result[i].path]
        /\ \A i \in 1..(idx - 1) : ~Exists(result[i].path)
        /\ \A i \in idx..Len(result) : Exists(result[i].path)

C15_Witness ==
    /\ pc = "rejected"
    /\ error.code = "ENOTEMPTY"
    /\ Len(removed) >= 2
    /\ idx < Len(result)

\* C12: the consumer callback is delivered at most once per directory in any
\* window of the quiet period: whenever a callback is delivered for a
\* directory that had one before, at least QuietPeriod time units have passed
\* since that one, whatever events arrived in between.
C12_OneCallbackPerQuietPeriod ==
    [][pc = "watching" =>
          \A d \in DOMAIN watchers :
              (watchers'[d].count > watchers[d].count /\ watchers[d].count > 0)
                  => now - watchers[d].last >= QuietPeriod]_vars

C12_Witness ==
    /\ pc = "watching"
    /\ \E d \in DOMAIN watchers :
          /\ watchers[d].count >= 2
          /\ watchers[d].dropped
          /\ watchers[d].last >= QuietPeriod

\* C17: in a recursive read with ignore set, an entry returned by the read of
\* a sub-directory is in the parent's result exactly when the ignore matcher
\* does not match its full path.
C17_SubResultsRecheckedByFullPath ==
    (pc = "read" /\ opts.recursive /\ opts.ignore # NoMatcher) =>
        \A n \in {m \in Names : IsDir(Append(RootPath, m))} :
            (\E k \in DOMAIN ignoreRaw(opts, readDir(RootPath)) :
                    ignoreRaw(opts, readDir(RootPath))[k] = n) =>
                LET subFiles == read(Append(RootPath, n), subOpts(opts, n))
                IN \A i \in DOMAIN subFiles :
                      subFiles[i].path \in Paths(result)
                          <=> ~Test(createFileMatch(opts.ignore), PathStr(subFiles[i].path))

\* a sub-directory's read returned root/sub/sub, whose full path the matcher
\* matches, and the parent dropped it
C17_Witness ==
    /\ pc = "read" /\ opts.recursive /\ ~opts.skipDirs /\ opts.filter = NoMatcher
    /\ opts.ignore = [kind |-> "contains", arg |-> "sub"]
    /\ IsDir(RootPath \o <<"sub", "sub">>)
    /\ (RootPath \o <<"sub">>) \in Paths(result)
    /\ (RootPath \o <<"sub", "sub">>) \notin Paths(result)

\* C13 as stated: the list watch returns is exactly the set of directories
\* that got a listener.
C13_ReturnedAreTheWatched ==
    pc = "watching" => Paths(result) = DOMAIN watchers

\* C16 as stated: a lock that was taken is released after the quiet period,
\* whatever the consumer callback does: whenever a lock is held, the timer
\* that releases it is pending.
C16_HeldLockHasReleaseTimer ==
    pc = "watching" =>
        \A d \in DOMAIN watchers :
            watchers[d].lock => watchers[d].timer # NoTimer

====
